---- MODULE Spec2Model ----
(***************************************************************************)
(* Model of src/replace_string.py: replace_periodic_in_msh(directory).     *)
(* Text is a sequence of one-character strings; a file name is text too.   *)
(***************************************************************************)
EXTENDS Integers, Sequences, FiniteSets, TLC

(* ------------------------------ bounds --------------------------------- *)
\* entries of the target directory
MaxEntries == 2
\* fragments of text in all files of the directory together (Spec, SpecExt)
MaxTotalFrags == 2
\* fragments of text in the single file of SpecRerun
MaxFrags == 3
\* I/O failures the environment injects over a behaviour
MaxFaults == 1
\* writes by an external process over a behaviour
MaxExt == 1
\* entries of the target directory in SpecExt
MaxExtEntries == 1
\* invocations of the tool over a behaviour
MaxRuns == 2

(* ------------------------------ text ----------------------------------- *)
Stem == <<"p", "e", "r", "i", "o", "d", "i", "c">>
periodic1 == Stem \o <<"1">>
periodic2 == Stem \o <<"2">>
periodic3 == Stem \o <<"3">>
periodicx == Stem \o <<"x">>
periodicz == Stem \o <<"z">>
periodicy == Stem \o <<"y">>

\* the table with periodic1 rewritten to a token that a later pass rewrites
replacementsCascade ==
    << <<periodic1, periodic2>>, <<periodic2, periodicz>>, <<periodic3, periodicy>> >>

\* the table with periodic3 rewritten to a token that an earlier pass rewrote
replacementsReintroduce ==
    << <<periodic1, periodicx>>, <<periodic2, periodicz>>, <<periodic3, periodic1>> >>

\* the dict literal of lines 18-22, in insertion order
replacements ==
    << <<periodic1, periodicx>>, <<periodic2, periodicz>>, <<periodic3, periodicy>> >>

Suffix == <<".", "m", "s", "h">>

\* a suffix test that compares the lengths only
EndsWithLengthOnly(s, suf) == Len(s) >= Len(suf)

\* str.endswith
EndsWith(s, suf) ==
    /\ Len(s) >= Len(suf)
    /\ SubSeq(s, Len(s) - Len(suf) + 1, Len(s)) = suf

\* characters re.escape puts a backslash before (those of the model's alphabet)
SpecialChars == {".", " ", "\\"}

\* re.escape: a backslash before every special character
RECURSIVE ReEscape(_)
ReEscape(s) ==
    IF s = <<>> THEN <<>>
    ELSE (IF Head(s) \in SpecialChars THEN <<"\\", Head(s)>> ELSE <<Head(s)>>)
         \o ReEscape(Tail(s))

\* the compiled pattern: one atom per pattern element; "\c" is the literal c,
\* "." matches any character, any other character is itself
RECURSIVE Compile(_)
Compile(p) ==
    IF p = <<>> THEN <<>>
    ELSE IF Head(p) = "\\" /\ Len(p) >= 2
         THEN <<[wild |-> FALSE, ch |-> p[2]]>> \o Compile(Tail(Tail(p)))
    ELSE IF Head(p) = "."
         THEN <<[wild |-> TRUE, ch |-> "."]>> \o Compile(Tail(p))
    ELSE <<[wild |-> FALSE, ch |-> Head(p)]>> \o Compile(Tail(p))

\* the compiled pattern matches s at position i
MatchAt(atoms, s, i) ==
    /\ i + Len(atoms) - 1 <= Len(s)
    /\ \A k \in 1..Len(atoms) : atoms[k].wild \/ atoms[k].ch = s[i + k - 1]

\* re.sub with count = 1: only the leftmost match is replaced
RECURSIVE SubFirstFrom(_, _, _, _)
SubFirstFrom(atoms, repl, s, i) ==
    IF i > Len(s) THEN <<>>
    ELSE IF MatchAt(atoms, s, i)
         THEN repl \o SubSeq(s, i + Len(atoms), Len(s))
    ELSE <<s[i]>> \o SubFirstFrom(atoms, repl, s, i + 1)

ReSubFirst(pattern, repl, s) == SubFirstFrom(Compile(pattern), repl, s, 1)

\* re.sub's scan: leftmost match, replaced, and the scan goes on after it
RECURSIVE SubFrom(_, _, _, _)
SubFrom(atoms, repl, s, i) ==
    IF i > Len(s) THEN <<>>
    ELSE IF MatchAt(atoms, s, i)
         THEN repl \o SubFrom(atoms, repl, s, i + Len(atoms))
    ELSE <<s[i]>> \o SubFrom(atoms, repl, s, i + 1)

\* re.sub(pattern, repl, s) for a non-empty pattern and a repl without backslashes
ReSub(pattern, repl, s) == SubFrom(Compile(pattern), repl, s, 1)

\* the passes of lines 32-33 over the table entries order[1], order[2], ...
RECURSIVE ApplyOrder(_, _)
ApplyOrder(order, s) ==
    IF order = <<>> THEN s
    ELSE ApplyOrder(Tail(order),
                    ReSub(ReEscape(replacements[Head(order)][1]),
                          replacements[Head(order)][2], s))

\* lines 31-33: modified_content after the loop over replacements.items()
Apply(s) == ApplyOrder([i \in 1..Len(replacements) |-> i], s)

(* --------------------------- the file system ---------------------------- *)
NameA == <<"a", ".", "m", "s", "h">>
NameB == <<"b", ".", "m", "s", "h">>
NameT == <<"b", ".", "t", "x", "t">>
Names == {NameA, NameB, NameT}

Kinds == {"file", "dir"}
TargetKinds == {"dir", "file", "missing"}

\* text of the files of Spec and SpecExt, and of the single file of SpecRerun
RunFrags == {periodic1, periodic2, periodic3, <<" ">>}
RichFrags == {periodic1, periodic2, periodic3, Stem, <<"1">>, <<"x">>}
\* what the one file inside a subdirectory holds, and what an external process writes
NestedContent == periodic1
ExtContents == {periodic2, <<" ">>}

FragSeqs(F, n) == UNION {[1..k -> F] : k \in 0..n}

RECURSIVE Flatten(_)
Flatten(fs) == IF fs = <<>> THEN <<>> ELSE Head(fs) \o Flatten(Tail(fs))

RECURSIVE TotalLen(_, _)
TotalLen(fr, S) ==
    IF S = {} THEN 0
    ELSE LET n == CHOOSE x \in S : TRUE IN Len(fr[n]) + TotalLen(fr, S \ {n})

\* the orders os.listdir may return the entries in
Perms(S) ==
    {l \in [1..Cardinality(S) -> S] : \A i, j \in 1..Cardinality(S) : l[i] = l[j] => i = j}

VARIABLES
    targetKind,        \* what the path `directory` names
    kind,              \* entry name -> "file" | "dir"
    disk,              \* name of a regular file -> its text
    nested,            \* name of a subdirectory -> text of the file inside it
    pc,                \* position in replace_periodic_in_msh
    listing,           \* the list os.listdir(directory) returned
    idx,               \* position of the for loop in listing
    content,           \* local variable content
    modified_content,  \* local variable modified_content
    out,               \* lines printed by this invocation
    run,               \* number of the invocation
    faults,            \* I/O failures injected so far
    disk0,             \* history: disk when the invocation began
    listed,            \* history: os.listdir was called
    opened,            \* history: <<name, mode>> of every open() attempted
    readLog,           \* history: name -> text infile.read() returned
    failed,            \* history: name -> exception raised inside the try
    completed,           \* history: names whose try body ran to its end
    prevCompleted,       \* history: completed of the previous invocation
    ext                \* history: the external writes

vars == <<targetKind, kind, disk, nested, pc, listing, idx, content,
          modified_content, out, run, faults, disk0, listed, opened, readLog,
          failed, completed, prevCompleted, ext>>

env == <<targetKind, kind, nested>>
locals == <<listing, idx, content, modified_content>>

Files == {n \in DOMAIN kind : kind[n] = "file"}
Dirs == {n \in DOMAIN kind : kind[n] = "dir"}
Empty == [n \in {} |-> <<>>]

Line(t, name, why) == [t |-> t, name |-> name, why |-> why]
Printed(l) == \E i \in 1..Len(out) : out[i] = l
PrintedFor(name) == {i \in 1..Len(out) : out[i].t # "nodir" /\ out[i].name = name}

InitDir(F, total, maxEntries) ==
    /\ targetKind \in TargetKinds
    /\ \E names \in SUBSET Names :
         /\ Cardinality(names) <= maxEntries
         /\ \E k \in [names -> Kinds] :
              \E fr \in [names -> FragSeqs(F, total)] :
                /\ \A n \in names : k[n] = "dir" => fr[n] = <<>>
                /\ TotalLen(fr, names) <= total
                /\ kind = k
                /\ disk = [n \in {m \in names : k[m] = "file"} |-> Flatten(fr[n])]
                /\ nested = [n \in {m \in names : k[m] = "dir"} |-> NestedContent]
    /\ pc = "start"
    /\ listing = <<>>
    /\ idx = 1
    /\ content = <<>>
    /\ modified_content = <<>>
    /\ out = <<>>
    /\ run = 1
    /\ faults = 0
    /\ disk0 = disk
    /\ listed = FALSE
    /\ opened = {}
    /\ readLog = Empty
    /\ failed = Empty
    /\ completed = {}
    /\ prevCompleted = {}
    /\ ext = <<>>

Init == InitDir(RunFrags, MaxTotalFrags, MaxEntries)
InitRerun == InitDir(RichFrags, MaxFrags, 1)
InitExt == InitDir(RunFrags, MaxTotalFrags, MaxExtEntries)

(* ----------------------- replace_periodic_in_msh ------------------------ *)
\* os.path.exists in the place of os.path.isdir
IsDirExists(t) == t # "missing"

\* os.path.isdir
IsDir(t) == t = "dir"

\* lines 14-16: the path is no directory
CheckDirFail ==
    /\ pc = "start"
    /\ ~IsDir(targetKind)
    /\ out' = Append(out, Line("nodir", <<>>, "not found"))
    /\ pc' = "done"
    /\ UNCHANGED <<env, disk, locals, run, faults, disk0, listed, opened,
                   readLog, failed, completed, prevCompleted, ext>>

\* lines 14 and 24: the path is a directory and os.listdir lists it
ListDir ==
    /\ pc = "start"
    /\ IsDir(targetKind)
    /\ \E l \in Perms(DOMAIN kind) : listing' = l
    /\ idx' = 1
    /\ listed' = TRUE
    /\ pc' = "loop"
    /\ UNCHANGED <<env, disk, content, modified_content, out, run, faults,
                   disk0, opened, readLog, failed, completed, prevCompleted, ext>>

AtEntry == pc = "loop" /\ idx <= Len(listing)
filename == listing[idx]

\* line 25: the name does not end with ".msh"
SkipEntry ==
    /\ AtEntry
    /\ ~EndsWith(filename, Suffix)
    /\ idx' = idx + 1
    /\ UNCHANGED <<env, disk, pc, listing, content, modified_content, out, run,
                   faults, disk0, listed, opened, readLog, failed, completed,
                   prevCompleted, ext>>

\* line 24: the listing is exhausted and the function returns
Return ==
    /\ pc = "loop"
    /\ idx > Len(listing)
    /\ pc' = "done"
    /\ UNCHANGED <<env, disk, locals, out, run, faults, disk0, listed, opened,
                   readLog, failed, completed, prevCompleted, ext>>

\* the except clause around the whole loop: the error ends the run
OnExceptionAbort(name, why) ==
    /\ out' = Append(out, Line("err", name, why))
    /\ idx' = idx
    /\ pc' = "done"

\* lines 40-41: the except clause, then the next iteration
OnException(name, why) ==
    /\ out' = Append(out, Line("err", name, why))
    /\ idx' = idx + 1
    /\ pc' = "loop"

\* an exception raised inside the try of lines 27-38
Raise(name, why) ==
    /\ failed' = (name :> why) @@ failed
    /\ OnException(name, why)

\* lines 28-29: open(filepath, 'r') and infile.read() succeed
ReadOK ==
    /\ AtEntry
    /\ EndsWith(filename, Suffix)
    /\ kind[filename] = "file"
    /\ opened' = opened \cup {<<filename, "r">>}
    /\ content' = disk[filename]
    /\ readLog' = (filename :> disk[filename]) @@ readLog
    /\ pc' = "sub"
    /\ UNCHANGED <<env, disk, listing, idx, modified_content, out, run, faults,
                   disk0, listed, failed, completed, prevCompleted, ext>>

\* line 28: open(filepath, 'r') on a directory raises IsADirectoryError
ReadIsDir ==
    /\ AtEntry
    /\ EndsWith(filename, Suffix)
    /\ kind[filename] = "dir"
    /\ opened' = opened \cup {<<filename, "r">>}
    /\ Raise(filename, "IsADirectoryError")
    /\ UNCHANGED <<env, disk, listing, content, modified_content, run, faults,
                   disk0, listed, readLog, completed, prevCompleted, ext>>

\* line 28: open(filepath, 'r') is refused
ReadOpenFail ==
    /\ AtEntry
    /\ EndsWith(filename, Suffix)
    /\ kind[filename] = "file"
    /\ faults < MaxFaults
    /\ faults' = faults + 1
    /\ opened' = opened \cup {<<filename, "r">>}
    /\ Raise(filename, "PermissionError")
    /\ UNCHANGED <<env, disk, listing, content, modified_content, run, disk0,
                   listed, readLog, completed, prevCompleted, ext>>

\* a read that truncates: the file opened with 'w+' instead of 'r'
ReadDecodeFailTruncating ==
    /\ AtEntry
    /\ EndsWith(filename, Suffix)
    /\ kind[filename] = "file"
    /\ faults < MaxFaults
    /\ faults' = faults + 1
    /\ opened' = opened \cup {<<filename, "w">>}
    /\ disk' = [disk EXCEPT ![filename] = <<>>]
    /\ Raise(filename, "UnicodeDecodeError")
    /\ UNCHANGED <<env, listing, content, modified_content, run, disk0,
                   listed, readLog, completed, prevCompleted, ext>>

\* line 29: infile.read() cannot decode the bytes
ReadDecodeFail ==
    /\ AtEntry
    /\ EndsWith(filename, Suffix)
    /\ kind[filename] = "file"
    /\ faults < MaxFaults
    /\ faults' = faults + 1
    /\ opened' = opened \cup {<<filename, "r">>}
    /\ Raise(filename, "UnicodeDecodeError")
    /\ UNCHANGED <<env, disk, listing, content, modified_content, run, disk0,
                   listed, readLog, completed, prevCompleted, ext>>

\* lines 31-33
Substitute ==
    /\ pc = "sub"
    /\ modified_content' = Apply(content)
    /\ pc' = "write"
    /\ UNCHANGED <<env, disk, listing, idx, content, out, run, faults, disk0,
                   listed, opened, readLog, failed, completed, prevCompleted, ext>>

\* lines 35-38 with the write and the report skipped when nothing changed
WriteOKIfChanged ==
    /\ pc = "write"
    /\ IF modified_content # content
       THEN /\ opened' = opened \cup {<<filename, "w">>}
            /\ disk' = [disk EXCEPT ![filename] = modified_content]
            /\ out' = Append(out, Line("ok", filename, ""))
       ELSE UNCHANGED <<opened, disk, out>>
    /\ completed' = completed \cup {filename}
    /\ idx' = idx + 1
    /\ pc' = "loop"
    /\ UNCHANGED <<env, listing, content, modified_content, run, faults, disk0,
                   listed, readLog, failed, prevCompleted, ext>>

\* lines 35-38 writing the transformation of what the file holds now
WriteOKReread ==
    /\ pc = "write"
    /\ opened' = opened \cup {<<filename, "w">>}
    /\ disk' = [disk EXCEPT ![filename] = Apply(disk[filename])]
    /\ completed' = completed \cup {filename}
    /\ out' = Append(out, Line("ok", filename, ""))
    /\ idx' = idx + 1
    /\ pc' = "loop"
    /\ UNCHANGED <<env, listing, content, modified_content, run, faults, disk0,
                   listed, readLog, failed, prevCompleted, ext>>

\* lines 35-38: open(filepath, 'w'), outfile.write and the report succeed
WriteOK ==
    /\ pc = "write"
    /\ opened' = opened \cup {<<filename, "w">>}
    /\ disk' = [disk EXCEPT ![filename] = modified_content]
    /\ completed' = completed \cup {filename}
    /\ out' = Append(out, Line("ok", filename, ""))
    /\ idx' = idx + 1
    /\ pc' = "loop"
    /\ UNCHANGED <<env, listing, content, modified_content, run, faults, disk0,
                   listed, readLog, failed, prevCompleted, ext>>

\* line 35: open(filepath, 'w') is refused; nothing is truncated
WriteOpenFail ==
    /\ pc = "write"
    /\ faults < MaxFaults
    /\ faults' = faults + 1
    /\ opened' = opened \cup {<<filename, "w">>}
    /\ Raise(filename, "PermissionError")
    /\ UNCHANGED <<env, disk, listing, content, modified_content, run, disk0,
                   listed, readLog, completed, prevCompleted, ext>>

\* lines 35-36: the open truncated the file, then the buffered text (shorter
\* than the buffer) could not be flushed
WriteFail ==
    /\ pc = "write"
    /\ faults < MaxFaults
    /\ faults' = faults + 1
    /\ opened' = opened \cup {<<filename, "w">>}
    /\ disk' = [disk EXCEPT ![filename] = <<>>]
    /\ Raise(filename, "OSError")
    /\ UNCHANGED <<env, listing, content, modified_content, run, disk0,
                   listed, readLog, completed, prevCompleted, ext>>

\* lines 43-44: the script is run again
Reinvoke ==
    /\ pc = "done"
    /\ run < MaxRuns
    /\ run' = run + 1
    /\ pc' = "start"
    /\ listing' = <<>>
    /\ idx' = 1
    /\ content' = <<>>
    /\ modified_content' = <<>>
    /\ out' = <<>>
    /\ disk0' = disk
    /\ listed' = FALSE
    /\ opened' = {}
    /\ readLog' = Empty
    /\ failed' = Empty
    /\ completed' = {}
    /\ prevCompleted' = completed
    /\ UNCHANGED <<env, disk, faults, ext>>

\* where the tool is with the file name when an external process writes it
Phase(name) ==
    IF name \in completed \/ name \in DOMAIN failed THEN "after"
    ELSE IF name \in DOMAIN readLog THEN "between"
    ELSE "before"

\* another process overwrites a file of the directory during the run
ExtWrite ==
    /\ pc \in {"loop", "sub", "write"}
    /\ Len(ext) < MaxExt
    /\ \E name \in Files : \E c \in ExtContents :
         /\ disk' = [disk EXCEPT ![name] = c]
         /\ ext' = Append(ext, [name |-> name, content |-> c, phase |-> Phase(name)])
    /\ UNCHANGED <<env, pc, locals, out, run, faults, disk0, listed, opened,
                   readLog, failed, completed, prevCompleted>>

Next ==
    \/ CheckDirFail
    \/ ListDir
    \/ SkipEntry
    \/ Return
    \/ ReadOK
    \/ ReadIsDir
    \/ ReadOpenFail
    \/ ReadDecodeFail
    \/ Substitute
    \/ WriteOK
    \/ WriteOpenFail
    \/ WriteFail

NextExt == Next \/ ExtWrite
NextRerun == Next \/ Reinvoke

Spec == Init /\ [][Next]_vars
SpecExt == InitExt /\ [][NextExt]_vars
SpecRerun == InitRerun /\ [][NextRerun]_vars

(* ------------------- what the claims are stated with -------------------- *)
\* the table as the documentation states it
StatedTable ==
    << <<periodic1, periodicx>>, <<periodic2, periodicz>>, <<periodic3, periodicy>> >>

\* the name ends with the four characters ".msh"
HasMshSuffix(n) ==
    /\ Len(n) >= 4
    /\ n[Len(n) - 3] = "."
    /\ n[Len(n) - 2] = "m"
    /\ n[Len(n) - 1] = "s"
    /\ n[Len(n)] = "h"

\* the positions at which tok occurs in s
Occ(tok, s) == {i \in 1..(Len(s) - Len(tok) + 1) : SubSeq(s, i, i + Len(tok) - 1) = tok}

\* the occurrence among occ of a token of length n that covers position i, if
\* any (0 if none); the tokens of the table cannot overlap themselves, so
\* there is at most one
Covering(occ, n, i) ==
    IF \E j \in occ : j <= i /\ i < j + n
    THEN CHOOSE j \in occ : j <= i /\ i < j + n
    ELSE 0

\* s with every occurrence of tok replaced by new (of the same length)
ReplacedAll(tok, new, s) ==
    LET occ == Occ(tok, s)
    IN  [i \in 1..Len(s) |->
            LET j == Covering(occ, Len(tok), i)
            IN  IF j # 0 THEN new[i - j + 1] ELSE s[i]]

\* the three stated replacements one after another
SequentialRef(s) ==
    ReplacedAll(StatedTable[3][1], StatedTable[3][2],
        ReplacedAll(StatedTable[2][1], StatedTable[2][2],
            ReplacedAll(StatedTable[1][1], StatedTable[1][2], s)))

\* all three stated replacements made at once on the original text
SimultaneousRef(s) ==
    LET occ == [k \in 1..3 |-> Occ(StatedTable[k][1], s)]
        cov(k, i) == Covering(occ[k], Len(StatedTable[k][1]), i)
    IN  [i \in 1..Len(s) |->
            IF \E k \in 1..3 : cov(k, i) # 0
            THEN LET k == CHOOSE r \in 1..3 : cov(r, i) # 0
                 IN  StatedTable[k][2][i - cov(k, i) + 1]
            ELSE s[i]]

NoTokens(s) == \A k \in 1..3 : Occ(StatedTable[k][1], s) = {}

(* ------------------------------- claims --------------------------------- *)
\* C1: every ".msh" file whose read, substitution and write all succeeded holds
\* the text that was read with every occurrence of periodic1, then of periodic2,
\* then of periodic3 replaced by periodicx, periodicz, periodicy.
C1_SequentialReplaceAll ==
    \A f \in completed :
        /\ HasMshSuffix(f)
        /\ f \in DOMAIN readLog
        /\ disk[f] = SequentialRef(readLog[f])

C1_Witness ==
    /\ pc = "done"
    /\ \E f \in completed :
         /\ Cardinality(Occ(periodic1, readLog[f])) >= 2
         /\ disk[f] = periodicx \o periodicx

\* C2: an entry whose name does not end with ".msh" is never opened, and its
\* text after the run is its text before the run.
C2_OtherSuffixUntouched ==
    \A n \in DOMAIN kind :
        ~HasMshSuffix(n) =>
            /\ <<n, "r">> \notin opened
            /\ <<n, "w">> \notin opened
            /\ n \in Files => disk[n] = disk0[n]

C2_Witness ==
    /\ pc = "done"
    /\ listed
    /\ NameT \in Files
    /\ disk[NameT] = periodic1
    /\ NameA \in completed
    /\ disk[NameA] = periodicx

\* C3: when the path is missing or no directory, the run prints exactly one
\* diagnostic, lists nothing, opens nothing and changes no file.
C3_NoDirectoryNoIO ==
    targetKind # "dir" =>
        /\ ~listed
        /\ opened = {}
        /\ disk = disk0
        /\ pc = "done" => out = <<Line("nodir", <<>>, "not found")>>
        /\ pc # "done" => out = <<>>

C3_Witness ==
    /\ targetKind = "file"
    /\ pc = "done"
    /\ Len(out) = 1
    /\ NameA \in Files
    /\ disk[NameA] = periodic1

\* C4: when the run ends, every ".msh" entry whose processing raised is
\* reported by an error line naming it, and every other ".msh" entry is a file
\* holding the transformation of its text and is reported as processed.
C4_FailureDoesNotAbort ==
    /\ \A n \in DOMAIN failed : Printed(Line("err", n, failed[n]))
    /\ (pc = "done" /\ targetKind = "dir") =>
         \A n \in DOMAIN kind :
            (HasMshSuffix(n) /\ n \notin DOMAIN failed) =>
                /\ n \in Files
                /\ disk[n] = SequentialRef(disk0[n])
                /\ Printed(Line("ok", n, ""))

C4_Witness ==
    /\ pc = "done"
    /\ listing = <<NameA, NameB>>
    /\ NameA \in DOMAIN failed
    /\ <<NameA, "w">> \notin opened
    /\ NameB \in completed
    /\ disk0[NameB] = periodic2
    /\ disk[NameB] = periodicz

\* C5: the text the tool writes is a fixed point of the substitution, and a run
\* over a file the previous run transformed leaves its text as it was.
C5_Idempotent ==
    /\ pc = "write" => Apply(modified_content) = modified_content
    /\ \A f \in completed \cap prevCompleted : disk[f] = disk0[f]

C5_Witness ==
    /\ run = 2
    /\ pc = "done"
    /\ \E f \in completed \cap prevCompleted :
         disk[f] = periodicx \o periodicz \o periodicy

C7_SubdirectorySkippedSilently ==
    \A d \in Dirs :
        /\ <<d, "r">> \notin opened
        /\ <<d, "w">> \notin opened
        /\ PrintedFor(d) = {}
        /\ nested[d] = NestedContent

\* C8: the result of the three passes is the result of replacing the three
\* tokens at once in the original text, and is the same in every order of the
\* passes.
C8_NoCascade ==
    pc = "write" =>
        /\ modified_content = SimultaneousRef(content)
        /\ \A o \in Perms(1..3) : ApplyOrder(o, content) = modified_content

C8_Witness ==
    /\ pc = "write"
    /\ content = periodic3 \o periodic1 \o periodic2
    /\ modified_content = periodicy \o periodicx \o periodicz

\* C9: after the tool's write, and until another process writes the file
\* again, the file holds the transformation of the text the tool read, also
\* when another process wrote the file between the read and the write.
C9_LastWriterWins ==
    \A f \in completed :
        (\A i \in 1..Len(ext) : ext[i].name = f => ext[i].phase # "after") =>
            disk[f] = SequentialRef(readLog[f])

C9_Witness ==
    /\ pc = "done"
    /\ \E f \in completed :
         /\ Len(ext) = 1
         /\ ext[1].name = f
         /\ ext[1].phase = "between"
         /\ readLog[f] = periodic1
         /\ ext[1].content = periodic2
         /\ disk[f] = periodicx

\* C10: a file whose read did not return is never opened for writing and keeps
\* its text, and a file is opened for writing only after its read returned.
C10_ReadFailureLeavesFile ==
    /\ \A f \in DOMAIN failed \ DOMAIN readLog :
         /\ <<f, "w">> \notin opened
         /\ f \in Files => disk[f] = disk0[f]
    /\ \A f \in DOMAIN kind : <<f, "w">> \in opened => f \in DOMAIN readLog
    /\ pc = "write" => (filename \in DOMAIN readLog /\ modified_content = Apply(readLog[filename]))

C10_Witness ==
    /\ pc = "done"
    /\ \E f \in Files :
         /\ f \in DOMAIN failed
         /\ failed[f] = "UnicodeDecodeError"
         /\ <<f, "r">> \in opened
         /\ disk[f] = periodic1

====
